---- MODULE Spec2Model ----
(***************************************************************************)
(* Jira integration activities (package jira): the REST client             *)
(* (client.go), the record normaliser and the activities (issues.go), and  *)
(* the two cursor-paginated "fetch all" nodes whose per-page fetchers live *)
(* in issues.go and whose loop lives in core.PaginateWithConfig.           *)
(*                                                                         *)
(* Strings that the code parses or formats (cursors) are sequences of      *)
(* one-character strings, so that strconv.Itoa / strconv.Atoi are computed *)
(* and not assumed.  Error values are sequences of message tokens, the     *)
(* nil error being the empty sequence; fmt.Errorf("label: %w", err)        *)
(* prepends its label.  A nil pointer is the empty sequence and a non-nil  *)
(* pointer a one-element sequence.                                         *)
(***************************************************************************)
EXTENDS Integers, Sequences, FiniteSets, TLC

\* ------------------------------------------------------------- bounds

\* Largest total the remote service reports.
MaxTotal == 11
\* Largest number of issues the remote service puts in one page.
MaxPageLen == 4
\* The page counter and the ghost histories stop counting here (saturate);
\* the pagination loop itself is not stopped by it.
MaxPageCount == 4
\* The caller replaces the cursor after at most this many fetcher calls.
MaxHandAt == 1

\* ---------------------------------------------------- program constants

StatusOK == 200
DefaultClientMaxResults == 50
DefaultActivityMaxResults == 100
DefaultTimeoutSeconds == 30

\* ------------------------------------------------------------ strconv

Digits == <<"0", "1", "2", "3", "4", "5", "6", "7", "8", "9">>

IsDigit(ch) == \E i \in 1..10 : Digits[i] = ch

DigitVal(ch) == (CHOOSE i \in 1..10 : Digits[i] = ch) - 1

RECURSIVE FormatNat(_)
FormatNat(n) ==
    IF n < 10 THEN <<Digits[n + 1]>>
    ELSE FormatNat(n \div 10) \o <<Digits[(n % 10) + 1]>>

\* strconv.Itoa: decimal digits, most significant first, "-" before a
\* negative number.
Itoa(n) == IF n < 0 THEN <<"-">> \o FormatNat(-n) ELSE FormatNat(n)

RECURSIVE ParseDigits(_, _)
ParseDigits(s, acc) ==
    IF s = <<>> THEN acc
    ELSE ParseDigits(Tail(s), acc * 10 + DigitVal(Head(s)))

\* strconv.Atoi: an optional sign and at least one decimal digit, nothing
\* else; otherwise a syntax error and the value 0.
Atoi(s) ==
    LET signed == s # <<>> /\ Head(s) \in {"+", "-"}
        body   == IF signed THEN Tail(s) ELSE s
        bad    == body = <<>> \/ \E i \in 1..Len(body) : ~IsDigit(body[i])
    IN  IF bad
        THEN [val |-> 0,
              err |-> <<"strconv.Atoi: parsing \"">> \o s \o <<"\": invalid syntax">>]
        ELSE [val |-> IF signed /\ Head(s) = "-"
                      THEN 0 - ParseDigits(body, 0)
                      ELSE ParseDigits(body, 0),
              err |-> <<>>]

\* ------------------------------------------------- client.go data types

NoErr == <<>>

User(name) == [DisplayName |-> name]

Comment(author, body) == [Body |-> body, Author |-> User(author)]

CommentSet == {Comment("Alice", "Confirmed."), Comment("Bob", "Fixed.")}

CommentLists ==
    {<<>>} \cup {<<c>> : c \in CommentSet}
           \cup {<<c, d>> : c \in CommentSet, d \in CommentSet}

\* *Comments: nil, or a Comments struct holding the list.
CommentsPtrs == {<<>>} \cup {<<[Comments |-> l]>> : l \in CommentLists}

\* *Priority and *User: nil, or a struct whose name may be empty.
PriorityPtrs == {<<>>, <<[Name |-> "High"]>>, <<[Name |-> ""]>>}

AssigneePtrs == {<<>>, <<User("Alice")>>, <<User("")>>}

TimeLayoutOK == "2024-05-06T07:08:09.000+0000"

UpdatedStrings == {"", TimeLayoutOK, "2024-05-06"}

MakeIssue(key, summary, description, updated, priority, assignee, comments) ==
    [Key    |-> key,
     Self   |-> "https://jira.test/rest/api/3/issue/" \o key,
     Fields |-> [Summary     |-> summary,
                 Description |-> description,
                 Status      |-> [Name |-> "Open"],
                 IssueType   |-> [Name |-> "Bug"],
                 Project     |-> [Key |-> "PROJ"],
                 Updated     |-> updated,
                 Priority    |-> priority,
                 Assignee    |-> assignee,
                 Comments    |-> comments]]

\* The issues a single-issue lookup may return.
Issues ==
    {MakeIssue("PROJ-1", s, d, u, p, a, c) :
        s \in {"Bug", ""}, d \in {"", "Steps..."}, u \in UpdatedStrings,
        p \in PriorityPtrs, a \in AssigneePtrs, c \in CommentsPtrs}

\* The issue the remote service holds at a zero-based offset of a search.
ServerIssue(i) ==
    MakeIssue("PROJ-" \o ToString(i),
              IF i % 2 = 0 THEN "Bug" ELSE "Task",
              IF i % 3 = 0 THEN "" ELSE "Steps...",
              IF i % 2 = 0 THEN TimeLayoutOK ELSE "",
              IF i % 3 = 1 THEN <<>> ELSE <<[Name |-> "High"]>>,
              IF i % 2 = 1 THEN <<>> ELSE <<User("Alice")>>,
              IF i % 3 = 2 THEN <<>>
              ELSE <<[Comments |-> <<Comment("Alice", "Confirmed.")>>]>>)

\* ------------------------------------------------ issues.go: normaliser

ZeroTime == "0001-01-01T00:00:00Z"

\* time.Parse against the layout "2006-01-02T15:04:05.000-0700": the one
\* well-formed string of the model parses, every other string is an error
\* and leaves the zero time.
TimeParse(s) ==
    IF s = TimeLayoutOK THEN [t |-> "2024-05-06T07:08:09Z", err |-> NoErr]
    ELSE [t |-> ZeroTime, err |-> <<"parsing time">>]

RECURSIVE AppendComments(_, _)
AppendComments(content, comments) ==
    IF comments = <<>> THEN content
    ELSE AppendComments(
             content \o "\n\n[Comment by " \o Head(comments).Author.DisplayName
                     \o "]: " \o Head(comments).Body,
             Tail(comments))

BaseMetadata(issue) ==
    [k \in {"issue_key", "project", "status", "issue_type"} |->
        CASE k = "issue_key"  -> issue.Key
          [] k = "project"    -> issue.Fields.Project.Key
          [] k = "status"     -> issue.Fields.Status.Name
          [] k = "issue_type" -> issue.Fields.IssueType.Name]

\* Faulty variant: a missing priority is written as an empty value.
WithPriority_emptyWhenNil(metadata, issue) ==
    IF issue.Fields.Priority # <<>>
    THEN ("priority" :> issue.Fields.Priority[1].Name) @@ metadata
    ELSE ("priority" :> "") @@ metadata

WithPriority(metadata, issue) ==
    IF issue.Fields.Priority # <<>>
    THEN ("priority" :> issue.Fields.Priority[1].Name) @@ metadata
    ELSE metadata

WithAssignee(metadata, issue) ==
    IF issue.Fields.Assignee # <<>>
    THEN ("assignee" :> issue.Fields.Assignee[1].DisplayName) @@ metadata
    ELSE metadata

\* Faulty variant: the description is appended even when it is empty.
WithDescription_always(content, issue) ==
    content \o "\n\n" \o issue.Fields.Description

WithDescription(content, issue) ==
    IF issue.Fields.Description # ""
    THEN content \o "\n\n" \o issue.Fields.Description
    ELSE content

WithComments(content, issue) ==
    IF issue.Fields.Comments # <<>>
    THEN AppendComments(content, issue.Fields.Comments[1].Comments)
    ELSE content

issueToDocument(issue) ==
    [ID        |-> issue.Key,
     Content   |-> WithComments(WithDescription(issue.Fields.Summary, issue), issue),
     Title     |-> issue.Fields.Summary,
     Source    |-> "jira",
     URL       |-> issue.Self,
     Metadata  |-> WithAssignee(WithPriority(BaseMetadata(issue), issue), issue),
     UpdatedAt |-> IF issue.Fields.Updated # ""
                   THEN TimeParse(issue.Fields.Updated).t
                   ELSE ZeroTime]

\* docs := make(...); for _, issue := range result.Issues { append }
DocumentsOf(issues) == [i \in 1..Len(issues) |-> issueToDocument(issues[i])]

\* The zero transform.Document of a zero-valued output struct.
ZeroDocument ==
    [ID |-> "", Content |-> "", Title |-> "", Source |-> "", URL |-> "",
     Metadata |-> <<>>, UpdatedAt |-> ZeroTime]

\* ------------------------------------------------------ client.go: Client

GoodBaseURL == "https://jira.test"
BadBaseURL == "://jira.test"

\* url.Parse inside http.NewRequestWithContext: a URL with no scheme before
\* "://" does not parse.
URLParses(baseURL) == baseURL # BadBaseURL

NewClient(cfg) ==
    [baseURL  |-> cfg.BaseURL,
     email    |-> cfg.Email,
     apiToken |-> cfg.APIToken,
     timeout  |-> IF cfg.Timeout = 0 THEN DefaultTimeoutSeconds ELSE cfg.Timeout]

ClientConfig(input) ==
    [BaseURL |-> input.BaseURL, Email |-> input.Email,
     APIToken |-> input.APIToken, Timeout |-> 0]

\* url.QueryEscape: the escaped form of a query string is another string.
QueryEscape(s) == "escaped(" \o s \o ")"

\* req.SetBasicAuth and the two JSON headers.
setAuth(c, req) ==
    [req EXCEPT !.auth = <<c.email, c.apiToken>>,
                !.accept = "application/json",
                !.contentType = "application/json"]

NewRequest(endpoint) ==
    [method |-> "GET", url |-> endpoint, auth |-> <<>>, accept |-> "",
     contentType |-> ""]

\* What the remote side does with one request: the transport fails, or a
\* response comes back with a status, a body text and, for a search, the
\* decoded total and page length (json = FALSE: the body does not decode).
ErrorBodies == {"Forbidden", ""}

\* The totals the remote service reports.
Totals == {0, 1, 5, MaxTotal}

SearchResponses ==
    {[kind |-> "neterr", status |-> 0, body |-> "", json |-> FALSE,
      total |-> 0, n |-> 0]}
    \cup {[kind |-> "http", status |-> st, body |-> b, json |-> FALSE,
           total |-> 0, n |-> 0] : st \in {403, 204}, b \in ErrorBodies}
    \cup {[kind |-> "http", status |-> StatusOK, body |-> "{", json |-> FALSE,
           total |-> 0, n |-> 0]}
    \cup {[kind |-> "http", status |-> StatusOK, body |-> "{...}", json |-> TRUE,
           total |-> t, n |-> k] : t \in Totals, k \in 0..MaxPageLen}

IssueResponses ==
    {[kind |-> "neterr", status |-> 0, body |-> "", json |-> FALSE,
      issue |-> <<>>]}
    \cup {[kind |-> "http", status |-> st, body |-> b, json |-> FALSE,
           issue |-> <<>>] : st \in {403, 404, 204}, b \in ErrorBodies}
    \cup {[kind |-> "http", status |-> StatusOK, body |-> "{", json |-> FALSE,
           issue |-> <<>>]}
    \cup {[kind |-> "http", status |-> StatusOK, body |-> "{...}", json |-> TRUE,
           issue |-> <<i>>] : i \in Issues}

\* The issues of the page the service serves from a start offset.
PageIssues(startAt, n) == [i \in 1..n |-> ServerIssue(startAt + i - 1)]

\* Faulty variant: the request is built without the caller's context.
Do_ignoresContext(ctxDone, req, resp) ==
    IF resp.kind = "neterr"
    THEN [sent |-> <<req>>, err |-> <<"dial tcp: connection refused">>]
    ELSE [sent |-> <<req>>, err |-> NoErr]

\* c.httpClient.Do(req) with the request's context: a context that is
\* already done fails the call before anything is sent; otherwise the
\* request goes out once and the transport either fails or responds.
Do(ctxDone, req, resp) ==
    IF ctxDone
    THEN [sent |-> <<>>, err |-> <<"context canceled">>]
    ELSE IF resp.kind = "neterr"
    THEN [sent |-> <<req>>, err |-> <<"dial tcp: connection refused">>]
    ELSE [sent |-> <<req>>, err |-> NoErr]

\* Faulty variant: the response body is left out of the error.
APIError_withoutBody(resp) ==
    <<"jira API error: status=", ToString(resp.status)>>

\* fmt.Errorf("jira API error: status=%d body=%s", ...)
APIError(resp) ==
    <<"jira API error: status=", ToString(resp.status), " body=", resp.body>>

\* Client.SearchJQLWithParams.  result is nil (<<>>) or one SearchResult;
\* sent lists the requests that went out during the call.
SearchJQLWithParams(ctxDone, c, params, resp) ==
    LET maxResults == IF params.MaxResults <= 0 THEN DefaultClientMaxResults
                      ELSE params.MaxResults
        endpoint == <<c.baseURL, "/rest/api/3/search?jql=", QueryEscape(params.JQL),
                      "&startAt=", ToString(params.StartAt),
                      "&maxResults=", ToString(maxResults)>>
        req == setAuth(c, NewRequest(endpoint))
        done == Do(ctxDone, req, resp)
    IN  IF ~URLParses(c.baseURL)
        THEN [result |-> <<>>, sent |-> <<>>,
              err |-> <<"create request: ", "parse url: missing protocol scheme">>]
        ELSE IF done.err # NoErr
        THEN [result |-> <<>>, sent |-> done.sent,
              err |-> <<"execute request: ">> \o done.err]
        ELSE IF resp.status # StatusOK
        THEN [result |-> <<>>, sent |-> done.sent, err |-> APIError(resp)]
        ELSE IF ~resp.json
        THEN [result |-> <<>>, sent |-> done.sent,
              err |-> <<"decode response: ", "unexpected EOF">>]
        ELSE [result |-> <<[StartAt |-> params.StartAt,
                            MaxResults |-> maxResults,
                            Total |-> resp.total,
                            Issues |-> PageIssues(params.StartAt, resp.n)]>>,
              sent |-> done.sent, err |-> NoErr]

\* Client.SearchJQL: the first page.
SearchJQL(ctxDone, c, jql, maxResults, resp) ==
    SearchJQLWithParams(ctxDone, c,
        [JQL |-> jql, StartAt |-> 0, MaxResults |-> maxResults], resp)

\* Client.GetIssue.
GetIssue(ctxDone, c, issueKey, resp) ==
    LET endpoint == <<c.baseURL, "/rest/api/3/issue/", issueKey>>
        req == setAuth(c, NewRequest(endpoint))
        done == Do(ctxDone, req, resp)
    IN  IF ~URLParses(c.baseURL)
        THEN [issue |-> <<>>, sent |-> <<>>,
              err |-> <<"create request: ", "parse url: missing protocol scheme">>]
        ELSE IF done.err # NoErr
        THEN [issue |-> <<>>, sent |-> done.sent,
              err |-> <<"execute request: ">> \o done.err]
        ELSE IF resp.status # StatusOK
        THEN [issue |-> <<>>, sent |-> done.sent, err |-> APIError(resp)]
        ELSE IF ~resp.json
        THEN [issue |-> <<>>, sent |-> done.sent,
              err |-> <<"decode response: ", "unexpected EOF">>]
        ELSE [issue |-> resp.issue, sent |-> done.sent, err |-> NoErr]

\* ------------------------------------------------- issues.go: activities

\* time.Time.Format("2006-01-02 15:04") of a time given by its parts.
FormatSince(t) == t.date \o " " \o t.hour \o ":" \o t.minute

\* The JQL of the project filter (FetchIssuesActivity, FetchAllIssues).
ProjectJQL(project, since) ==
    IF since # <<>>
    THEN "project = " \o project \o " AND updated >= '" \o FormatSince(since[1])
         \o "' ORDER BY updated DESC"
    ELSE "project = " \o project \o " ORDER BY updated DESC"

\* maxResults := input.MaxResults; if maxResults <= 0 { maxResults = 100 }
EffectiveMaxResults(n) == IF n <= 0 THEN DefaultActivityMaxResults ELSE n

ZeroPageResult == [Items |-> <<>>, NextCursor |-> <<>>, HasMore |-> FALSE]

\* Faulty variant: the cursor error is dropped and the run starts over at 0.
ParseCursor_ignoresError(cursor) ==
    IF cursor # <<>> THEN [val |-> Atoi(cursor).val, err |-> NoErr]
    ELSE [val |-> 0, err |-> NoErr]

\* startAt := 0; if cursor != "" { startAt, err = strconv.Atoi(cursor) }
ParseCursor(cursor) ==
    IF cursor # <<>> THEN Atoi(cursor) ELSE [val |-> 0, err |-> NoErr]

\* Faulty variant: the last item is taken to be the end of the dataset.
HasMore_offByOne(nextStartAt, total) == nextStartAt + 1 < total

\* hasMore := nextStartAt < result.Total
HasMore(nextStartAt, total) == nextStartAt < total

\* A faulty PageResultOf: the next cursor encodes the page's length, not the
\* next start offset.
PageResultOf_pageLength(startAt, result) ==
    LET nextStartAt == startAt + Len(result.Issues)
        hasMore == nextStartAt < result.Total
    IN  [Items      |-> result.Issues,
         NextCursor |-> IF hasMore THEN Itoa(Len(result.Issues)) ELSE <<>>,
         HasMore    |-> hasMore]

\* nextStartAt, hasMore, nextCursor and the PageResult built from them.
PageResultOf(startAt, result) ==
    LET nextStartAt == startAt + Len(result.Issues)
        hasMore == HasMore(nextStartAt, result.Total)
    IN  [Items      |-> result.Issues,
         NextCursor |-> IF hasMore THEN Itoa(nextStartAt) ELSE <<>>,
         HasMore    |-> hasMore]

\* The fetcher closure of FetchAllIssues: one page of the project filter.
FetchAllIssuesFetcher(ctxDone, cfg, cursor, resp) ==
    LET client == NewClient(ClientConfig(cfg))
        jql == ProjectJQL(cfg.Project, cfg.Since)
        parsed == ParseCursor(cursor)
        call == SearchJQLWithParams(ctxDone, client,
                    [JQL |-> jql, StartAt |-> parsed.val,
                     MaxResults |-> EffectiveMaxResults(cfg.MaxResults)], resp)
    IN  IF parsed.err # NoErr
        THEN [page |-> ZeroPageResult, sent |-> <<>>,
              err |-> <<"parse cursor: ">> \o parsed.err]
        ELSE IF call.err # NoErr
        THEN [page |-> ZeroPageResult, sent |-> call.sent,
              err |-> <<"search jql: ">> \o call.err]
        ELSE [page |-> PageResultOf(parsed.val, call.result[1]),
              sent |-> call.sent, err |-> NoErr]

\* The fetcher closure of SearchAllJQL: one page of a raw query.
SearchAllJQLFetcher(ctxDone, cfg, cursor, resp) ==
    LET client == NewClient(ClientConfig(cfg))
        parsed == ParseCursor(cursor)
        call == SearchJQLWithParams(ctxDone, client,
                    [JQL |-> cfg.JQL, StartAt |-> parsed.val,
                     MaxResults |-> EffectiveMaxResults(cfg.MaxResults)], resp)
    IN  IF parsed.err # NoErr
        THEN [page |-> ZeroPageResult, sent |-> <<>>,
              err |-> <<"parse cursor: ">> \o parsed.err]
        ELSE IF call.err # NoErr
        THEN [page |-> ZeroPageResult, sent |-> call.sent,
              err |-> <<"search jql: ">> \o call.err]
        ELSE [page |-> PageResultOf(parsed.val, call.result[1]),
              sent |-> call.sent, err |-> NoErr]

\* transform.StoreDocuments: the storage collaborator answers with a
\* reference or with an error.
StoreOutcomes == {[ref |-> "ref-1", err |-> NoErr],
                  [ref |-> "", err |-> <<"storage unavailable">>]}

ZeroListOutput == [Ref |-> "", Count |-> 0, Total |-> 0]

\* A faulty SearchAndStore: a failed store still reports the page's counts.
SearchAndStore_countsOnStoreError(ctxDone, in, jql, resp, store) ==
    LET client == NewClient(ClientConfig(in))
        call == SearchJQL(ctxDone, client, jql,
                          EffectiveMaxResults(in.MaxResults), resp)
        docs == DocumentsOf(call.result[1].Issues)
    IN  IF call.err # NoErr
        THEN [out |-> ZeroListOutput, err |-> <<"search jql: ">> \o call.err,
              sent |-> call.sent, stores |-> <<>>]
        ELSE [out |-> [Ref |-> store.ref, Count |-> Len(docs),
                       Total |-> call.result[1].Total],
              err |-> IF store.err # NoErr
                      THEN <<"store documents: ">> \o store.err ELSE NoErr,
              sent |-> call.sent, stores |-> <<docs>>]

\* The body shared by FetchIssuesActivity and SearchJQLActivity after the
\* query is built: search, normalise, store.  stores lists the document
\* sets handed to the storage collaborator.
SearchAndStore(ctxDone, in, jql, resp, store) ==
    LET client == NewClient(ClientConfig(in))
        call == SearchJQL(ctxDone, client, jql,
                          EffectiveMaxResults(in.MaxResults), resp)
        docs == DocumentsOf(call.result[1].Issues)
    IN  IF call.err # NoErr
        THEN [out |-> ZeroListOutput, err |-> <<"search jql: ">> \o call.err,
              sent |-> call.sent, stores |-> <<>>]
        ELSE IF store.err # NoErr
        THEN [out |-> ZeroListOutput,
              err |-> <<"store documents: ">> \o store.err,
              sent |-> call.sent, stores |-> <<docs>>]
        ELSE [out |-> [Ref |-> store.ref, Count |-> Len(docs),
                       Total |-> call.result[1].Total],
              err |-> NoErr, sent |-> call.sent, stores |-> <<docs>>]

FetchIssuesActivity(ctxDone, in, resp, store) ==
    SearchAndStore(ctxDone, in, ProjectJQL(in.Project, in.Since), resp, store)

SearchJQLActivity(ctxDone, in, resp, store) ==
    SearchAndStore(ctxDone, in, in.JQL, resp, store)

FetchIssueActivity(ctxDone, in, resp) ==
    LET client == NewClient(ClientConfig(in))
        call == GetIssue(ctxDone, client, in.IssueKey, resp)
    IN  IF call.err # NoErr
        THEN [out |-> [Document |-> ZeroDocument, Found |-> FALSE],
              err |-> <<"get issue: ">> \o call.err, sent |-> call.sent]
        ELSE [out |-> [Document |-> issueToDocument(call.issue[1]),
                       Found |-> TRUE],
              err |-> NoErr, sent |-> call.sent]

\* ------------------------------------------------------------- state

VARIABLES
    op,              \* the operation this invocation runs
    input,           \* its input / config struct
    pc,              \* "ready", "paging" (between two pages), "done", "failed"
    ctxDone,         \* the invocation's context has been cancelled
    cursor,          \* the cursor the next fetcher call receives
    allItems,        \* the pagination run's accumulator
    fetchCalls,      \* fetcher calls made so far (stops counting at MaxPageCount)
    last,            \* what the most recent fetcher / client call returned
    out,             \* the operation's output value
    outErr,          \* the operation's error value
    stores,          \* the document sets handed to the storage collaborator
    lastResp,        \* ghost: what the remote side did with the last call
    lastStore,       \* ghost: what the storage collaborator answered
    responded,       \* ghost: the last call was answered with an HTTP response
    sentCursor,      \* ghost: the cursor the most recent fetcher call received
    sumLens,         \* ghost: sum of the page lengths returned so far
    wellBehaved,     \* ghost: the pages so far are non-empty, agree on the
                     \*        total, never exceed it, and no call failed
    cancelBetween,   \* ghost: the run was cancelled between two pages
    sentAfterCancel, \* ghost: a request went out after the cancellation
    handed           \* ghost: the caller replaced the cursor (CursorSpec only)

vars == <<op, input, pc, ctxDone, cursor, allItems, fetchCalls, last, out,
          outErr, stores, lastResp, lastStore, responded, sentCursor, sumLens,
          wellBehaved, cancelBetween, sentAfterCancel, handed>>

SinglePage == {"FetchIssues", "SearchJQL"}
LongRunning == {"FetchAllIssues", "SearchAllJQL"}
Ops == SinglePage \cup LongRunning \cup {"FetchIssue"}

SinceValues ==
    {<<>>, <<[date |-> "2024-05-01", hour |-> "10", minute |-> "30"]>>}

MakeInput(baseURL, since, maxResults) ==
    [BaseURL |-> baseURL, Email |-> "bot@jira.test", APIToken |-> "token",
     Project |-> "PROJ", Since |-> since, MaxResults |-> maxResults,
     JQL |-> "status = Open", IssueKey |-> "PROJ-1"]

\* The inputs of an operation; a field an operation's struct does not have
\* keeps one value.  The single-page activities take every combination;
\* a long-running node takes one well-formed and one malformed base URL.
Inputs(o) ==
    CASE o \in SinglePage ->
           {MakeInput(b, s, m) : b \in {GoodBaseURL, BadBaseURL},
                                 s \in IF o = "FetchIssues" THEN SinceValues
                                       ELSE {<<>>},
                                 m \in {0, 3}}
      [] o = "FetchIssue" ->
           {MakeInput(b, <<>>, 0) : b \in {GoodBaseURL, BadBaseURL}}
      [] o = "FetchAllIssues" ->
           {MakeInput(GoodBaseURL, CHOOSE s \in SinceValues : s # <<>>, 0),
            MakeInput(BadBaseURL, <<>>, 3)}
      [] o = "SearchAllJQL" ->
           {MakeInput(GoodBaseURL, <<>>, 3), MakeInput(BadBaseURL, <<>>, 0)}

NoCall == [page |-> ZeroPageResult, sent |-> <<>>, err |-> NoErr]
NoResponse == [kind |-> "none", status |-> 0, body |-> "", json |-> FALSE,
               total |-> 0, n |-> 0]
NoStore == [ref |-> "", err |-> NoErr]

\* The zero value of the pagination run's output.
ZeroPagesOutput == [Items |-> <<>>, PageCount |-> 0, FinalCursor |-> <<>>]

Init ==
    /\ op \in Ops
    /\ input \in Inputs(op)
    /\ pc = "ready"
    /\ ctxDone = FALSE
    /\ cursor = <<>>
    /\ allItems = <<>>
    /\ fetchCalls = 0
    /\ last = NoCall
    /\ out = <<>>
    /\ outErr = NoErr
    /\ stores = <<>>
    /\ lastResp = NoResponse
    /\ lastStore = NoStore
    /\ responded = FALSE
    /\ sentCursor = <<>>
    /\ sumLens = 0
    /\ wellBehaved = TRUE
    /\ cancelBetween = FALSE
    /\ sentAfterCancel = FALSE
    /\ handed = FALSE

\* The remote side answered the call with an HTTP response: the request
\* could be built, the context was live, and the transport delivered.
Answered(resp) ==
    URLParses(input.BaseURL) /\ ~ctxDone /\ resp.kind = "http"

\* ----------------------------------------------------------- actions

\* The orchestration runtime cancels the invocation's context.
Cancel ==
    /\ pc \in {"ready", "paging"}
    /\ ~ctxDone
    /\ ctxDone' = TRUE
    /\ cancelBetween' = (pc = "paging")
    /\ UNCHANGED <<op, input, pc, cursor, allItems, fetchCalls, last, out,
                   outErr, stores, lastResp, lastStore, responded, sentCursor,
                   sumLens, wellBehaved, sentAfterCancel, handed>>

\* One run of FetchIssuesActivity or SearchJQLActivity.
RunSinglePage ==
    /\ op \in SinglePage
    /\ pc = "ready"
    /\ \E resp \in SearchResponses, store \in StoreOutcomes :
         LET r == IF op = "FetchIssues"
                  THEN FetchIssuesActivity(ctxDone, input, resp, store)
                  ELSE SearchJQLActivity(ctxDone, input, resp, store)
         IN  /\ out' = r.out
             /\ outErr' = r.err
             /\ stores' = r.stores
             /\ last' = [page |-> ZeroPageResult, sent |-> r.sent, err |-> r.err]
             /\ lastResp' = resp
             /\ lastStore' = store
             /\ responded' = Answered(resp)
             /\ sentAfterCancel' = (ctxDone /\ r.sent # <<>>)
             /\ pc' = IF r.err = NoErr THEN "done" ELSE "failed"
    /\ UNCHANGED <<op, input, ctxDone, cursor, allItems, fetchCalls,
                   sentCursor, sumLens, wellBehaved, cancelBetween,
                   handed>>

\* One run of FetchIssueActivity.
RunFetchIssue ==
    /\ op = "FetchIssue"
    /\ pc = "ready"
    /\ \E resp \in IssueResponses :
         LET r == FetchIssueActivity(ctxDone, input, resp)
         IN  /\ out' = r.out
             /\ outErr' = r.err
             /\ last' = [page |-> ZeroPageResult, sent |-> r.sent, err |-> r.err]
             /\ lastResp' = resp
             /\ responded' = Answered(resp)
             /\ sentAfterCancel' = (ctxDone /\ r.sent # <<>>)
             /\ pc' = IF r.err = NoErr THEN "done" ELSE "failed"
    /\ UNCHANGED <<op, input, ctxDone, cursor, allItems, fetchCalls, stores,
                   lastStore, sentCursor, sumLens, wellBehaved,
                   cancelBetween, handed>>

\* The fetcher the node was built with.
Fetcher(cfg, cur, resp) ==
    IF op = "FetchAllIssues"
    THEN FetchAllIssuesFetcher(ctxDone, cfg, cur, resp)
    ELSE SearchAllJQLFetcher(ctxDone, cfg, cur, resp)

\* One iteration of the pagination loop of core.PaginateWithConfig around
\* the node's fetcher: call the fetcher with the current cursor; on an
\* error abort the run and return nothing; otherwise append the page and
\* either go on with the page's NextCursor or finish.
PaginateStep ==
    /\ op \in LongRunning
    /\ pc \in {"ready", "paging"}
    /\ \E resp \in SearchResponses :
         LET r == Fetcher(input, cursor, resp)
             n == Len(r.page.Items)
             calls == IF fetchCalls < MaxPageCount THEN fetchCalls + 1
                      ELSE fetchCalls
         IN  /\ last' = r
             /\ lastResp' = resp
             /\ responded' = (Answered(resp) /\ ParseCursor(cursor).err = NoErr)
             /\ sentCursor' = cursor
             /\ fetchCalls' = calls
             /\ sentAfterCancel' = (sentAfterCancel \/ (ctxDone /\ r.sent # <<>>))
             /\ outErr' = r.err
             /\ IF r.err # NoErr
                THEN /\ pc' = "failed"
                     /\ out' = ZeroPagesOutput
                     /\ wellBehaved' = FALSE
                     /\ UNCHANGED <<cursor, allItems, sumLens>>
                ELSE /\ allItems' = allItems \o r.page.Items
                     /\ sumLens' = sumLens + n
                     /\ wellBehaved' =
                          /\ wellBehaved
                          /\ fetchCalls = 0 \/ resp.total = lastResp.total
                          /\ sumLens + n <= resp.total
                          /\ sumLens < resp.total => n >= 1
                     /\ cursor' = r.page.NextCursor
                     /\ IF r.page.HasMore
                        THEN /\ pc' = "paging"
                             /\ UNCHANGED out
                        ELSE /\ pc' = "done"
                             /\ out' = [Items |-> allItems',
                                        PageCount |-> calls,
                                        FinalCursor |-> r.page.NextCursor]
    /\ UNCHANGED <<op, input, ctxDone, stores, lastStore, cancelBetween, handed>>

\* The caller of the fetcher hands it a cursor of its own choosing (a
\* persisted cursor string given back to a resumed run), once per run.
CursorInputs ==
    {<<>>, <<"0">>, <<"+", "0">>, <<"0", "0">>, <<"-", "1">>,
     <<"x">>, <<"1", "x">>, <<"-">>, <<" ", "1">>, <<"1", ".", "0">>}

HandCursor ==
    /\ op \in LongRunning
    /\ pc \in {"ready", "paging"}
    /\ ~handed
    /\ fetchCalls <= MaxHandAt
    /\ \E c \in CursorInputs : cursor' = c
    /\ handed' = TRUE
    /\ UNCHANGED <<op, input, pc, ctxDone, allItems, fetchCalls, last, out,
                   outErr, stores, lastResp, lastStore, responded, sentCursor,
                   sumLens, wellBehaved, cancelBetween,
                   sentAfterCancel>>

\* The steps the program itself takes.
Run == RunSinglePage \/ RunFetchIssue \/ PaginateStep

Next == RunSinglePage \/ RunFetchIssue \/ PaginateStep \/ Cancel

Spec == Init /\ [][Next]_vars

\* An invocation that has started keeps running until it returns.
FairSpec == Init /\ [][Next]_vars /\ WF_vars(Run)

NextAnyCursor ==
    RunSinglePage \/ RunFetchIssue \/ PaginateStep \/ Cancel \/ HandCursor

CursorSpec == Init /\ [][NextAnyCursor]_vars

\* ------------------------------------------------------------ claims

Range(s) == {s[i] : i \in 1..Len(s)}

Finished == pc \in {"done", "failed"}

DigitChars == {"0", "1", "2", "3", "4", "5", "6", "7", "8", "9"}

\* The value of a digit string, most significant digit first.
RECURSIVE DecimalValue(_)
DecimalValue(s) ==
    IF s = <<>> THEN 0
    ELSE 10 * DecimalValue(SubSeq(s, 1, Len(s) - 1))
         + (CHOOSE k \in 0..9 : ToString(k) = s[Len(s)])

\* s is the decimal string of the natural number n: digits only, no sign,
\* no leading zero.
EncodesNat(s, n) ==
    /\ s # <<>>
    /\ Range(s) \subseteq DigitChars
    /\ Len(s) > 1 => s[1] # "0"
    /\ DecimalValue(s) = n

\* s is a decimal integer: an optional sign, then one or more digits.
IsDecimalInteger(s) ==
    LET digits == IF s # <<>> /\ s[1] \in {"+", "-"} THEN Tail(s) ELSE s
    IN  digits # <<>> /\ Range(digits) \subseteq DigitChars

\* C1: a fetch-all / search-all run whose pages all arrive, agree on the
\* total, are non-empty until the total is reached and never exceed it,
\* terminates; it returns exactly `total` items, its final cursor is empty
\* and the last fetcher result has HasMore = false and NextCursor = "".
C1_PaginationTerminates ==
    [](op \in LongRunning /\ wellBehaved) =>
        <>(/\ pc = "done"
           /\ Len(out.Items) = lastResp.total
           /\ out.Items = PageIssues(0, lastResp.total)
           /\ out.FinalCursor = <<>>
           /\ ~last.page.HasMore
           /\ last.page.NextCursor = <<>>)

\* A well-behaved run of three pages that returned MaxTotal items.
C1_Witness ==
    /\ op \in LongRunning
    /\ wellBehaved
    /\ pc = "done"
    /\ fetchCalls = 3
    /\ Len(out.Items) = MaxTotal

\* C2: the first fetcher call of a run receives the empty cursor (start
\* offset 0); every later call receives the decimal string of the number
\* of items the calls before it returned, and asks the service for that
\* start offset.
C2_CursorIsSumOfPageLengths ==
    op \in LongRunning =>
        /\ pc = "ready" => cursor = <<>>
        /\ fetchCalls = 1 => sentCursor = <<>>
        /\ pc = "paging" => EncodesNat(cursor, sumLens)
        /\ (fetchCalls >= 1 /\ last.err = NoErr) =>
              LET before == sumLens - Len(last.page.Items)
              IN  /\ sentCursor # <<>> => EncodesNat(sentCursor, before)
                  /\ sentCursor = <<>> => before = 0
                  /\ last.sent[1].url[5] = ToString(before)

\* The third call received "8" and the fourth will receive "10".
C2_Witness ==
    /\ op \in LongRunning
    /\ pc = "paging"
    /\ fetchCalls = 3
    /\ sentCursor = <<"8">>
    /\ cursor = <<"1", "0">>

\* The last page came back empty although the service reports more items
\* than the run has fetched.
ZeroPageWithMore ==
    /\ op \in LongRunning
    /\ last.err = NoErr
    /\ fetchCalls >= 1
    /\ last.page.Items = <<>>
    /\ lastResp.total > sumLens

BadCursorCall ==
    /\ op \in LongRunning
    /\ fetchCalls >= 1
    /\ sentCursor # <<>>
    /\ ~IsDecimalInteger(sentCursor)

\* C4: a fetcher call whose cursor is non-empty and not a decimal integer
\* fails with a "parse cursor" error before any request is sent, returns
\* the zero PageResult, and the run aborts returning none of the items it
\* had accumulated.
C4_BadCursorIsTerminal ==
    BadCursorCall =>
        /\ last.err # NoErr
        /\ Head(last.err) = "parse cursor: "
        /\ last.sent = <<>>
        /\ last.page = ZeroPageResult
        /\ pc = "failed"
        /\ outErr = last.err
        /\ out.Items = <<>>

\* A bad cursor arrived after the run had accumulated items.
C4_Witness == BadCursorCall /\ allItems # <<>> /\ pc = "failed"

\* Some status outside 2xx.
NotSuccess(status) == status < 200 \/ status > 299

\* C5: a page fetch or single-record fetch answered with a non-success
\* status returns an error carrying the status code and the body text,
\* returns no page / record, and sent exactly one request.
C5_RejectionCarriesStatusAndBody ==
    (responded /\ NotSuccess(lastResp.status)) =>
        /\ last.err # NoErr
        /\ "jira API error: status=" \in Range(last.err)
        /\ ToString(lastResp.status) \in Range(last.err)
        /\ lastResp.body \in Range(last.err)
        /\ Len(last.sent) = 1
        /\ op \in LongRunning => last.page = ZeroPageResult
        /\ op \in SinglePage =>
              outErr = last.err /\ out = ZeroListOutput /\ stores = <<>>
        /\ op = "FetchIssue" =>
              /\ outErr = last.err
              /\ out = [Document |-> ZeroDocument, Found |-> FALSE]

\* A page fetch of a search-all run was answered 403 "Forbidden".
C5_Witness ==
    /\ responded
    /\ lastResp.status = 403
    /\ lastResp.body = "Forbidden"
    /\ op = "SearchAllJQL"
    /\ fetchCalls = 1
    /\ last.sent # <<>>

\* C6: a long-running operation that completed its pagination has
\* normalised every accumulated item and handed the full set to the
\* storage collaborator in exactly one call.
C6_LongRunningStoresOnce ==
    (op \in LongRunning /\ pc = "done") =>
        /\ Len(stores) = 1
        /\ stores[1] = DocumentsOf(allItems)

\* C7: a run cancelled between two pages, with the dataset not exhausted,
\* ends in an error and returns no items; it never ends as a success, and
\* no request goes out once the context is cancelled.
C7_CancelBetweenPagesFails ==
    /\ ~sentAfterCancel
    /\ cancelBetween =>
          /\ pc # "done"
          /\ pc = "failed" => (outErr # NoErr /\ out.Items = <<>>
                               /\ last.sent = <<>>)

\* A run cancelled after two pages has failed.
C7_Witness ==
    /\ cancelBetween
    /\ pc = "failed"
    /\ fetchCalls = 3
    /\ allItems # <<>>

CommentsOf(issue) ==
    IF issue.Fields.Comments = <<>> THEN <<>>
    ELSE issue.Fields.Comments[1].Comments

\* The content the claim describes, built up to the k-th comment.
RECURSIVE ExpectedContent(_, _)
ExpectedContent(issue, k) ==
    IF k = 0
    THEN IF issue.Fields.Description = "" THEN issue.Fields.Summary
         ELSE issue.Fields.Summary \o "\n\n" \o issue.Fields.Description
    ELSE ExpectedContent(issue, k - 1) \o "\n\n" \o "[Comment by "
         \o CommentsOf(issue)[k].Author.DisplayName \o "]: "
         \o CommentsOf(issue)[k].Body

ContentAsClaimed(doc, issue) ==
    /\ doc.Content = ExpectedContent(issue, Len(CommentsOf(issue)))
    /\ doc.Title = issue.Fields.Summary

ScenarioIssue(issue) ==
    /\ issue.Fields.Summary = "Bug"
    /\ issue.Fields.Description = "Steps..."
    /\ CommentsOf(issue) = <<Comment("Alice", "Confirmed.")>>

\* C8: a document's content is the summary, then a blank line and the
\* description when the description is non-empty, then for each comment in
\* order a blank line and "[Comment by <author>]: <body>"; its title is
\* the summary.
C8_ContentAndTitle ==
    /\ (op = "FetchIssue" /\ pc = "done") =>
          /\ ContentAsClaimed(out.Document, lastResp.issue[1])
          /\ ScenarioIssue(lastResp.issue[1]) =>
                out.Document.Content
                    = "Bug\n\nSteps...\n\n[Comment by Alice]: Confirmed."
    /\ (op \in SinglePage /\ stores # <<>>) =>
          \A i \in 1..Len(stores[1]) :
              ContentAsClaimed(stores[1][i], ServerIssue(i - 1))

\* The scenario issue was fetched and normalised.
C8_Witness ==
    /\ op = "FetchIssue"
    /\ pc = "done"
    /\ ScenarioIssue(lastResp.issue[1])

RequiredKeys == {"issue_key", "project", "status", "issue_type"}

MetadataAsClaimed(doc, issue) ==
    LET md == doc.Metadata
    IN  /\ RequiredKeys \subseteq DOMAIN md
        /\ DOMAIN md \subseteq RequiredKeys \cup {"priority", "assignee"}
        /\ md["issue_key"] = issue.Key
        /\ md["project"] = issue.Fields.Project.Key
        /\ md["status"] = issue.Fields.Status.Name
        /\ md["issue_type"] = issue.Fields.IssueType.Name
        /\ "priority" \in DOMAIN md <=> issue.Fields.Priority # <<>>
        /\ "assignee" \in DOMAIN md <=> issue.Fields.Assignee # <<>>
        /\ issue.Fields.Priority # <<>> =>
              md["priority"] = issue.Fields.Priority[1].Name
        /\ issue.Fields.Assignee # <<>> =>
              md["assignee"] = issue.Fields.Assignee[1].DisplayName

\* C9: a document's metadata always has issue_key, project, status and
\* issue_type, and has priority (assignee) exactly when the record carries
\* a priority (an assignee); a missing field gives no key, not an empty
\* value.
C9_MetadataKeys ==
    /\ (op = "FetchIssue" /\ pc = "done") =>
          MetadataAsClaimed(out.Document, lastResp.issue[1])
    /\ (op \in SinglePage /\ stores # <<>>) =>
          \A i \in 1..Len(stores[1]) :
              MetadataAsClaimed(stores[1][i], ServerIssue(i - 1))

\* A record without a priority and with an assignee whose name is empty.
C9_Witness ==
    /\ op = "FetchIssue"
    /\ pc = "done"
    /\ lastResp.issue[1].Fields.Priority = <<>>
    /\ lastResp.issue[1].Fields.Assignee = <<User("")>>

SearchSucceeded ==
    responded /\ lastResp.status = StatusOK /\ lastResp.json

\* C10: a single-page activity calls the storage collaborator at most
\* once and only after the search succeeded; when the search or the store
\* fails it returns an error and the zero output; on success Count is the
\* page's length and Total the reported total.
C10_SinglePageStoreAndOutput ==
    (op \in SinglePage /\ Finished) =>
        /\ Len(stores) <= 1
        /\ stores # <<>> => SearchSucceeded
        /\ ~SearchSucceeded => stores = <<>>
        /\ (~SearchSucceeded \/ lastStore.err # NoErr) =>
              /\ pc = "failed"
              /\ outErr # NoErr
              /\ out = ZeroListOutput
        /\ (SearchSucceeded /\ lastStore.err = NoErr) =>
              /\ pc = "done"
              /\ outErr = NoErr
              /\ Len(stores) = 1
              /\ Len(stores[1]) = lastResp.n
              /\ out.Count = lastResp.n
              /\ out.Total = lastResp.total
              /\ out.Ref = lastStore.ref

\* The search returned two issues and the store then failed.
C10_Witness ==
    /\ op \in SinglePage
    /\ pc = "failed"
    /\ SearchSucceeded
    /\ lastResp.n = 2
    /\ lastStore.err # NoErr

====
